---- MODULE Spec2Model ----
(***************************************************************************)
(* Model of the chat route of Unify-AI (src/app/api/ai-chat/route.ts):     *)
(* the POST handler, the chain orchestrator, the single-model paths and    *)
(* the three model clients seen from the handler, over a persistence store *)
(* of conversations and messages.                                          *)
(*                                                                         *)
(* Text is a sequence of chunks (a chunk is a piece of text that is never  *)
(* split); " " and "\n" are the whitespace chunks.  A JavaScript value     *)
(* that may be something else than a string is a record with its kind.    *)
(*                                                                         *)
(* Spec is the handler for one request, SpecFaulty the same over a store   *)
(* whose calls can reject, SpecContext the same on long conversations.     *)
(* SpecScraper follows callSciraAPI through its awaits and its polling     *)
(* loop, SpecFetcher the hosted and local clients through their fetch, and *)
(* SpecFormat takes texts of single characters through formatResponse.     *)
(***************************************************************************)
EXTENDS Integers, Sequences, FiniteSets, TLC

VARIABLES
    apiKey,         \* process.env.TOGETHER_API_KEY is set
    conversations,  \* the conversation table with its messages, in creation order
    body,           \* per request: the parsed JSON body
    pc,             \* per request: the handler's position
    loc,            \* per request: the handler's local variables
    resp,           \* per request: the NextResponse returned (or none yet)
    calls,          \* log of model-client invocations, in invocation order
    scraper,        \* one execution of callSciraAPI looked at step by step
    fetcher,        \* one execution of a hosted or local client looked at step by step
    normal          \* one text taken through formatResponse

handlerVars == <<apiKey, conversations, body, pc, loc, resp, calls>>
clientVars  == <<scraper, fetcher, normal>>
vars == <<apiKey, conversations, body, pc, loc, resp, calls, scraper, fetcher, normal>>

----------------------------------------------------------------------------
(* Bounds of the model *)

\* number of messages the user's existing conversation holds at most at start
MaxPrior == 2

\* number of messages the conversation of a context-mode request holds at most
MaxHistory == 12

\* length of the longest completion an upstream answers with
MaxCompletion == 4

\* length of the longest text over the whole alphabet given to formatResponse
MaxText == 4

\* length of the longest text of brackets and digits given to formatResponse
MaxMarkers == 6

----------------------------------------------------------------------------
(* JavaScript values and text *)

UNDEFINED == "<undefined>"      \* a field the body does not carry
NUMBER    == "<number>"         \* a truthy value that is not a string

JsUndefined == [kind |-> "undefined", n |-> 0, s |-> <<>>]
JsNumber(k) == [kind |-> "number", n |-> k, s |-> <<>>]
JsString(t) == [kind |-> "string", n |-> 0, s |-> t]

\* !v of JavaScript
Falsy(v) ==
    \/ v.kind = "undefined"
    \/ v.kind = "number" /\ v.n = 0
    \/ v.kind = "string" /\ v.s = <<>>

Whitespace == {" ", "\n"}

RECURSIVE TrimStart(_)
TrimStart(t) ==
    IF t # <<>> /\ Head(t) \in Whitespace THEN TrimStart(Tail(t)) ELSE t

RECURSIVE TrimEnd(_)
TrimEnd(t) ==
    IF t # <<>> /\ t[Len(t)] \in Whitespace
    THEN TrimEnd(SubSeq(t, 1, Len(t) - 1))
    ELSE t

\* String.prototype.trim
Trim(t) == TrimEnd(TrimStart(t))

\* t occurs in u as a contiguous run of chunks
Embeds(u, t) ==
    \E i \in 0..(Len(u) - Len(t)) : SubSeq(u, i + 1, i + Len(t)) = t

RECURSIVE Join(_, _)
\* Array.prototype.join: the texts of ts with sep between them
Join(ts, sep) ==
    IF ts = <<>> THEN <<>>
    ELSE IF Len(ts) = 1 THEN ts[1]
    ELSE ts[1] \o sep \o Join(Tail(ts), sep)

RECURSIVE NonEmptyMessages(_)
\* messages.filter(msg => msg.content && msg.content.trim() !== "")
NonEmptyMessages(ms) ==
    IF ms = <<>> THEN <<>>
    ELSE (IF Trim(Head(ms).content) # <<>> THEN <<Head(ms)>> ELSE <<>>)
         \o NonEmptyMessages(Tail(ms))

\* Array.prototype.slice(-k)
SliceLast(ms, k) ==
    IF Len(ms) <= k THEN ms ELSE SubSeq(ms, Len(ms) - k + 1, Len(ms))

----------------------------------------------------------------------------
(* Model identifiers and the routing conditions of the route *)

SCIRA    == "scira"
DEEPSEEK == "deepseek"
CHAINED  == "chained"

HostedGeneralModels ==
    {"meta-llama/Llama-3.3-70B-Instruct-Turbo-Free", "meta-llama/Llama-Vision-Free"}

OllamaModels ==
    {"gemma3:1b", "qwen2.5vl:3b", "llama3.2", "qwen2.5-coder:0.5b", "phi:2.7b",
     "tinyllama"}

\* the inline allow-list of POST's model check
AcceptedModels == {SCIRA, DEEPSEEK, CHAINED} \cup HostedGeneralModels \cup OllamaModels

\* the visionModels array of POST ("tinyll" as the source spells it)
visionModels ==
    HostedGeneralModels \cup
    {"gemma3:1b", "qwen2.5vl:3b", "llama3.2", "qwen2.5-coder:0.5b", "phi:2.7b", "tinyll"}

\* an identifier that is in no list but starts with "meta-llama"
UNLISTED_META == "meta-llama/unlisted"
\* an identifier that is in no list at all
INVALID_MODEL == "invalid-model"

\* every identifier a body of the model can carry
ModelUniverse ==
    AcceptedModels \cup {UNLISTED_META, INVALID_MODEL, UNDEFINED}

IsString(x) == x \notin {UNDEFINED, NUMBER}
Truthy(x)   == x # UNDEFINED

\* m.startsWith("meta-llama"), for a string m of ModelUniverse
StartsWithMetaLlama(m) == m \in HostedGeneralModels \cup {UNLISTED_META}

\* the functions that call a model
ScrapedClient == {"callSciraAPI"}
HostedClient  == {"callDeepSeekR1API", "processMetaLlamaModel"}
LocalClient   == {"processOllamaModel"}

\* the if-chain of POST that picks the function of a single-model request
\* (processSingleModel picks between its two clients by the same test)
SingleRoute(model) ==
    IF model = SCIRA THEN "callSciraAPI"
    ELSE IF model = DEEPSEEK THEN "callDeepSeekR1API"
    ELSE IF model \in HostedGeneralModels THEN "processMetaLlamaModel"
    ELSE IF model \in OllamaModels THEN "processOllamaModel"
    ELSE "none"

\* the if-chain of processChainedRequest, the same for both steps
ChainRoute(m) ==
    IF m = SCIRA THEN "callSciraAPI"
    ELSE IF m = DEEPSEEK THEN "callDeepSeekR1API"
    ELSE IF ~IsString(m) THEN "TypeError"
    ELSE IF StartsWithMetaLlama(m) \/ m \in OllamaModels THEN "processMetaLlamaModel"
    ELSE "unsupported"

----------------------------------------------------------------------------
(* The model clients, as the handler sees them: a call either returns a    *)
(* text or throws an error with a message (a sequence of fragments)        *)

Returned(t) == [ok |-> TRUE, text |-> t, msg |-> <<>>]
Thrown(m)   == [ok |-> FALSE, text |-> <<>>, msg |-> m]

\* texts an upstream can answer with, after the client's own clean-up
Answers == {<<"a">>, <<"b">>}

\* callSciraAPI: the prompt check precedes the browser launch; a launch
\* failure is rethrown as it is, a failure on the page is wrapped, and the
\* text read off the page is returned through formatResponse, which may
\* leave nothing of it
callSciraAPI(prompt) ==
    IF Trim(prompt) = <<>>
    THEN {Thrown(<<"Prompt must be a non-empty string">>)}
    ELSE {Thrown(<<"browserType.launch: failed">>),
          Thrown(<<"Failed to get response from Scira: ", "page.goto: Timeout 30000ms exceeded">>)}
         \cup {Returned(t) : t \in Answers \cup {<<>>}}

\* the outcomes of the hosted-inference POST shared by both hosted functions
TogetherOutcomes(haveKey) ==
    IF ~haveKey
    THEN {Thrown(<<"Together API key not found. Please set the TOGETHER_API_KEY environment variable.">>)}
    ELSE {Thrown(<<"Together AI API error: ", "HTTP 500 - Internal Server Error">>),
          Thrown(<<"Unexpected response format from Together AI API">>)}
         \cup {Returned(t) : t \in Answers \cup {<<>>}}

\* callDeepSeekR1API: every failure is wrapped once more
callDeepSeekR1API(haveKey) ==
    { IF o.ok THEN o ELSE Thrown(<<"Failed to get response from DeepSeek R1: ">> \o o.msg) :
        o \in TogetherOutcomes(haveKey) }

\* processMetaLlamaModel: failures are rethrown as they are
processMetaLlamaModel(haveKey) == TogetherOutcomes(haveKey)

\* processOllamaModel: an empty content is an unexpected response format
processOllamaModel ==
    {Thrown(<<"Ollama API error: ", "HTTP 404 - Not Found">>),
     Thrown(<<"Unexpected response format from Ollama API">>)}
    \cup {Returned(t) : t \in Answers}

\* the outcomes of calling function fn with a prompt
ClientOutcomes(fn, prompt, haveKey) ==
    IF fn = "callSciraAPI" THEN callSciraAPI(prompt)
    ELSE IF fn = "callDeepSeekR1API" THEN callDeepSeekR1API(haveKey)
    ELSE IF fn = "processMetaLlamaModel" THEN processMetaLlamaModel(haveKey)
    ELSE processOllamaModel

\* whether the call gets as far as the upstream (a browser launch, a fetch)
ReachesNetwork(fn, prompt, haveKey) ==
    IF fn = "callSciraAPI" THEN Trim(prompt) # <<>>
    ELSE IF fn \in HostedClient THEN haveKey
    ELSE TRUE

\* one entry of the invocation log: the request, the function called, the
\* identifier it was picked for, the model name and the prompt it was given,
\* the step of the request, whether it reached the upstream, and its outcome
Call(p, fn, id, model, prompt, step, haveKey, o) ==
    [req |-> p, fn |-> fn, id |-> id, model |-> model, prompt |-> prompt,
     step |-> step, net |-> ReachesNetwork(fn, prompt, haveKey), out |-> o]

----------------------------------------------------------------------------
(* Prompts *)

\* the chainedPrompt template of processChainedRequest
chainedPrompt(query, firstModel, firstResponse) ==
    <<"## Original User Query\n">> \o query
    \o <<"\n\n## Initial Response from ", firstModel, "\n">> \o firstResponse
    \o <<"\n\n## Your Task\n", "## Your Summary:">>

\* the prompt processChainedRequest hands to the second model
SecondPrompt(query, firstModel, secondModel, firstResponse) ==
    IF secondModel = DEEPSEEK
    THEN chainedPrompt(query, firstModel, firstResponse)
    ELSE firstResponse

\* the image preamble of POST
WithImage(query) ==
    <<"Describe the following image in detail:\n[Image data included]\nUser query: ">>
    \o query

\* the decoded content of the uploaded text file of the model
FileContent == <<"f">>

\* the file preamble of POST
WithFile(query) ==
    <<"The following is the content of an uploaded file:\n">> \o FileContent
    \o <<"\nUser query: ">> \o query

\* the query after POST's two augmentations
AugmentedQuery(b) ==
    LET q1 == IF b.image /\ b.model \in visionModels THEN WithImage(b.query.s)
              ELSE b.query.s
    IN  IF b.file THEN WithFile(q1) ELSE q1

\* one line of the context block
ContextLine(msg) ==
    (IF msg.isUser THEN <<"User: ">> ELSE <<"AI: ">>) \o msg.content

\* the number of prior messages context mode includes
ContextWindow == 10

promptToSendSliceFirst(query, contextMode, messages) ==
    IF contextMode
    THEN LET last == NonEmptyMessages(SliceLast(messages, ContextWindow))
             lines == [i \in 1..Len(last) |-> ContextLine(last[i])]
         IN  Join(lines, <<"\n">>) \o <<"\n", "User: ">> \o query
    ELSE query

\* promptToSend of POST
promptToSend(query, contextMode, messages) ==
    IF contextMode
    THEN LET last == SliceLast(NonEmptyMessages(messages), ContextWindow)
             lines == [i \in 1..Len(last) |-> ContextLine(last[i])]
         IN  Join(lines, <<"\n">>) \o <<"\n", "User: ">> \o query
    ELSE query

----------------------------------------------------------------------------
(* The persistence store *)

\* the e-mail addresses of the user table (a user's id is its e-mail here)
Users == {"u1", "u2"}

NoConv == "<none>"

\* ids conversation.create hands out, in order
NewIds == <<"n1", "n2">>

Message(content, isUser, model, p) ==
    [content |-> content, isUser |-> isUser, model |-> model, req |-> p]

\* the messages an existing conversation of u1 may hold at the start
PriorMessages ==
    [i \in 1..MaxPrior |->
        IF i % 2 = 1 THEN Message(<<"p">>, TRUE, SCIRA, 0)
        ELSE Message(<<"r">>, FALSE, SCIRA, 0)]

\* a lookup by id alone, whoever owns the conversation
findFirstOfAnyUser(convs, id, userId) ==
    LET hits == {i \in 1..Len(convs) : convs[i].id = id}
    IN  IF hits = {} THEN 0 ELSE CHOOSE i \in hits : TRUE

\* index of the conversation with this id owned by this user, 0 if none
\* (conversation.findFirst({ where: { id, userId } }))
findFirst(convs, id, userId) ==
    LET hits == {i \in 1..Len(convs) : convs[i].id = id /\ convs[i].userId = userId}
    IN  IF hits = {} THEN 0 ELSE CHOOSE i \in hits : TRUE

\* index of the conversation with this id, 0 if none
\* (conversation.findUnique({ where: { id } }))
findUnique(convs, id) ==
    LET hits == {i \in 1..Len(convs) : convs[i].id = id}
    IN  IF hits = {} THEN 0 ELSE CHOOSE i \in hits : TRUE

\* index of the user's most recently updated conversation, 0 if none; no
\* code of the route updates a conversation row, so the most recently
\* updated one is the one created last
findMostRecent(convs, userId) ==
    LET hits == {i \in 1..Len(convs) : convs[i].userId = userId}
    IN  IF hits = {} THEN 0 ELSE CHOOSE i \in hits : \A j \in hits : j <= i

\* the id conversation.create gives the next conversation
NextId(convs) ==
    NewIds[Cardinality({i \in 1..Len(convs) : \E k \in 1..Len(NewIds) : convs[i].id = NewIds[k]}) + 1]

\* conversation.create({ data: { title, userId } })
createConversation(convs, userId) ==
    Append(convs, [id |-> NextId(convs), userId |-> userId, messages |-> <<>>])

\* a message.create that writes nothing
createMessageDropped(convs, id, msg) == convs

\* message.create({ data: { ..., conversationId } })
createMessage(convs, id, msg) ==
    LET i == CHOOSE k \in 1..Len(convs) : convs[k].id = id
    IN  [convs EXCEPT ![i].messages = Append(@, msg)]

\* the messages of a conversation, ordered by creation time
MessagesOf(convs, id) ==
    LET i == findUnique(convs, id) IN IF i = 0 THEN <<>> ELSE convs[i].messages

\* the ids of a user's conversations, most recently updated first
\* (conversation.findMany of the listConversations branch)
RECURSIVE ConversationsOf(_, _)
ConversationsOf(convs, userId) ==
    IF convs = <<>> THEN <<>>
    ELSE LET n == Len(convs)
             rest == ConversationsOf(SubSeq(convs, 1, n - 1), userId)
         IN  IF convs[n].userId = userId THEN <<convs[n].id>> \o rest ELSE rest

\* the stores a request can find: u2 owns c2; u1 owns c1 with some prior
\* messages, or owns no conversation yet
InitialStores ==
    LET c2 == [id |-> "c2", userId |-> "u2",
               messages |-> <<Message(<<"s">>, TRUE, DEEPSEEK, 0)>>]
    IN  {<<c2>>} \cup
        { <<[id |-> "c1", userId |-> "u1", messages |-> SubSeq(PriorMessages, 1, k)], c2>> :
            k \in 0..MaxPrior }

----------------------------------------------------------------------------
(* Requests *)

Procs == {1, 2}

\* the query values of the model: missing, a number, zero, and strings
Queries ==
    {JsUndefined, JsNumber(123), JsNumber(0),
     JsString(<<>>), JsString(<<" ">>), JsString(<<"q">>)}

\* the fields of the body POST reads: parses (request.json() succeeds),
\* userEmail, listConversations, query, model, firstModel, secondModel,
\* conversationId, contextMode, image (present), file (a text file is attached)
Body(ok, u, l, q, m, m1, m2, c, x, i, f) ==
    [parses |-> ok, userEmail |-> u, listConversations |-> l, query |-> q,
     model |-> m, firstModel |-> m1, secondModel |-> m2, conversationId |-> c,
     contextMode |-> x, image |-> i, file |-> f]

\* a body request.json() rejects
MalformedBody ==
    Body(FALSE, UNDEFINED, FALSE, JsUndefined, UNDEFINED, UNDEFINED, UNDEFINED,
         UNDEFINED, FALSE, FALSE, FALSE)

\* the model identifiers tried as a step of a chain
ChainModels ==
    {UNDEFINED, SCIRA, DEEPSEEK, "meta-llama/Llama-3.3-70B-Instruct-Turbo-Free",
     UNLISTED_META, "gemma3:1b", INVALID_MODEL}

\* what a body of the model attaches: nothing, an image, or a text file
Attachments == {<<FALSE, FALSE>>, <<TRUE, FALSE>>, <<FALSE, TRUE>>}

\* the model selections of the model: a single model, or a chain of two;
\* firstModel and secondModel are read by the chained path alone
Selections ==
    ({CHAINED} \X ChainModels \X ChainModels)
    \cup { <<k, UNDEFINED, UNDEFINED>> : k \in ModelUniverse }

\* bodies answered before the query is looked at: no known user, or the
\* listConversations flag; the fields read later are absent
EarlyBodies ==
    { Body(TRUE, ul[1], ul[2], q, k, UNDEFINED, UNDEFINED, UNDEFINED, FALSE, FALSE, FALSE) :
        ul \in ({UNDEFINED, "ghost", "u1"} \X BOOLEAN) \ {<<"u1", FALSE>>},
        q \in Queries,
        k \in ModelUniverse }

\* bodies of a known user whose query is not a non-blank string
HistoryBodies ==
    { Body(TRUE, "u1", FALSE, q, k, UNDEFINED, UNDEFINED, c, FALSE, FALSE, FALSE) :
        q \in Queries \ {JsString(<<"q">>)},
        k \in ModelUniverse,
        c \in {UNDEFINED, "new", "c1", "c2"} }

\* bodies of a known user with a query to answer
ChatBodies ==
    { Body(TRUE, "u1", FALSE, JsString(<<"q">>), m[1], m[2], m[3], c, x, a[1], a[2]) :
        m \in Selections,
        c \in {UNDEFINED, "new", "c1", "c2"},
        x \in BOOLEAN,
        a \in Attachments }

\* the bodies of the model: a body varies the fields POST reads on its path
Bodies == {MalformedBody} \cup EarlyBodies \cup HistoryBodies \cup ChatBodies

NoResponse ==
    [status |-> 0, kind |-> "none", error |-> "", details |-> <<>>,
     responses |-> <<>>, finalOutput |-> <<>>, conversationId |-> NoConv,
     messages |-> <<>>, conversations |-> <<>>]

\* NextResponse.json({ error }, { status })
ErrorResponse(status, error) ==
    [NoResponse EXCEPT !.status = status, !.kind = "error", !.error = error]

InternalServerErrorBare(msg) == ErrorResponse(500, "Internal server error")

\* the response of POST's catch block
InternalServerError(msg) ==
    [NoResponse EXCEPT !.status = 500, !.kind = "error",
                       !.error = "Internal server error", !.details = msg]

\* the handler's locals before it has run
\* a client that is not looked at step by step in this specification
Off == [pc |-> "off"]

NoLocals ==
    [user |-> UNDEFINED, query |-> <<>>, conv |-> NoConv, messages |-> <<>>,
     prompt |-> <<>>, responses |-> <<>>, finalOutput |-> <<>>, stored |-> 0,
     dbError |-> <<>>]

Init ==
    /\ apiKey \in BOOLEAN
    /\ conversations \in InitialStores
    /\ \E b \in Bodies : body = [p \in Procs |-> IF p = 1 THEN b ELSE MalformedBody]
    /\ pc = [p \in Procs |-> IF p = 1 THEN "start" ELSE "off"]
    /\ loc = [p \in Procs |-> NoLocals]
    /\ resp = [p \in Procs |-> NoResponse]
    /\ calls = <<>>
    /\ scraper = Off
    /\ fetcher = Off
    /\ normal = Off

----------------------------------------------------------------------------
(* The POST handler, one action per stretch between two awaits *)

Reply(p, r) ==
    /\ resp' = [resp EXCEPT ![p] = r]
    /\ pc' = [pc EXCEPT ![p] = "done"]
    /\ UNCHANGED clientVars

Goto(p, label) ==
    /\ pc' = [pc EXCEPT ![p] = label]
    /\ UNCHANGED resp
    /\ UNCHANGED clientVars

\* request.json(), the userEmail check and user.findUnique
FindUser(p) ==
    /\ pc[p] = "start"
    /\ LET b == body[p] IN
        IF ~b.parses
        THEN Reply(p, InternalServerError(<<"Unexpected token in JSON">>))
             /\ UNCHANGED loc
        ELSE IF ~Truthy(b.userEmail) \/ ~IsString(b.userEmail)
        THEN Reply(p, ErrorResponse(400, "Valid userEmail is required"))
             /\ UNCHANGED loc
        ELSE IF b.userEmail \notin Users
        THEN Reply(p, ErrorResponse(404, "User not found"))
             /\ UNCHANGED loc
        ELSE Goto(p, "route")
             /\ loc' = [loc EXCEPT ![p].user = b.userEmail]
    /\ UNCHANGED <<apiKey, conversations, body, calls>>

\* the listConversations branch
ListConversations(p) ==
    /\ pc[p] = "route"
    /\ body[p].listConversations
    /\ Reply(p, [NoResponse EXCEPT !.status = 200, !.kind = "list",
                    !.conversations = ConversationsOf(conversations, loc[p].user)])
    /\ UNCHANGED <<apiKey, conversations, body, loc, calls>>

\* the test without its trim: a blank query is not a history request
IsHistoryRequestUntrimmed(query) == Falsy(query)

\* !query || query.trim() === "", where it evaluates to a value
IsHistoryRequest(query) ==
    \/ Falsy(query)
    \/ query.kind = "string" /\ Trim(query.s) = <<>>

\* query.trim() of a truthy value that is not a string throws a TypeError
TrimThrows(query) == ~Falsy(query) /\ query.kind # "string"

\* the test of the history branch throws: POST's catch block answers
QueryTrimThrows(p) ==
    /\ pc[p] = "route"
    /\ ~body[p].listConversations
    /\ TrimThrows(body[p].query)
    /\ Reply(p, InternalServerError(<<"query.trim is not a function">>))
    /\ UNCHANGED <<apiKey, conversations, body, loc, calls>>

\* the response of the history branch
HistoryResponse(id, messages) ==
    [NoResponse EXCEPT !.status = 200, !.kind = "history",
                       !.conversationId = id, !.messages = messages]

\* the history branch with a conversationId: findFirst by id and user
HistoryById(p) ==
    /\ pc[p] = "route"
    /\ ~body[p].listConversations
    /\ ~TrimThrows(body[p].query)
    /\ IsHistoryRequest(body[p].query)
    /\ Truthy(body[p].conversationId) /\ body[p].conversationId # "new"
    /\ LET i == findFirst(conversations, body[p].conversationId, loc[p].user) IN
        IF i = 0
        THEN Reply(p, ErrorResponse(404, "Conversation not found or does not belong to user"))
        ELSE Reply(p, HistoryResponse(conversations[i].id, conversations[i].messages))
    /\ UNCHANGED <<apiKey, conversations, body, loc, calls>>

\* the history branch without one: the most recent conversation, or a new one
HistoryFallback(p) ==
    /\ pc[p] = "route"
    /\ ~body[p].listConversations
    /\ ~TrimThrows(body[p].query)
    /\ IsHistoryRequest(body[p].query)
    /\ ~(Truthy(body[p].conversationId) /\ body[p].conversationId # "new")
    /\ LET i == findMostRecent(conversations, loc[p].user) IN
        IF i = 0
        THEN /\ conversations' = createConversation(conversations, loc[p].user)
             /\ Reply(p, HistoryResponse(NextId(conversations), <<>>))
        ELSE /\ UNCHANGED conversations
             /\ Reply(p, HistoryResponse(conversations[i].id, conversations[i].messages))
    /\ UNCHANGED <<apiKey, body, loc, calls>>

\* query === undefined || query === null || typeof query !== "string"
QueryInvalid(query) == query.kind # "string"

ModelInvalidLax(model) == ~Truthy(model)

\* !model || ![...].includes(model)
ModelInvalid(model) == ~Truthy(model) \/ model \notin AcceptedModels

\* the credential is never looked at
CredentialMissingNever(key) == FALSE

\* !process.env.TOGETHER_API_KEY
CredentialMissing(key) == ~key

\* the checks of query, model and credential, then the two augmentations
Validate(p) ==
    /\ pc[p] = "route"
    /\ ~body[p].listConversations
    /\ ~TrimThrows(body[p].query)
    /\ ~IsHistoryRequest(body[p].query)
    /\ LET b == body[p] IN
        IF QueryInvalid(b.query)
        THEN Reply(p, ErrorResponse(400, "Query is required and must be a string"))
             /\ UNCHANGED loc
        ELSE IF ModelInvalid(b.model)
        THEN Reply(p, ErrorResponse(400, "Valid model selection is required"))
             /\ UNCHANGED loc
        ELSE IF CredentialMissing(apiKey)
        THEN Reply(p, ErrorResponse(500, "TOGETHER API key not configured"))
             /\ UNCHANGED loc
        ELSE Goto(p, "conversation")
             /\ loc' = [loc EXCEPT ![p].query = AugmentedQuery(b)]
    /\ UNCHANGED <<apiKey, conversations, body, calls>>

\* conversation.findFirst by id and user, or conversation.create
LoadConversation(p) ==
    /\ pc[p] = "conversation"
    /\ LET b == body[p] IN
        IF Truthy(b.conversationId) /\ b.conversationId # "new"
        THEN LET i == findFirst(conversations, b.conversationId, loc[p].user) IN
             IF i = 0
             THEN /\ Reply(p, ErrorResponse(404, "Conversation not found or does not belong to user"))
                  /\ UNCHANGED <<loc, conversations>>
             ELSE /\ Goto(p, "storeUser")
                  /\ loc' = [loc EXCEPT ![p].conv = conversations[i].id,
                                        ![p].messages = conversations[i].messages]
                  /\ UNCHANGED conversations
        ELSE /\ Goto(p, "storeUser")
             /\ conversations' = createConversation(conversations, loc[p].user)
             /\ loc' = [loc EXCEPT ![p].conv = NextId(conversations),
                                   ![p].messages = <<>>]
    /\ UNCHANGED <<apiKey, body, calls>>

\* message.create of the user message, then the prompt is prepared
StoreUserMessage(p) ==
    /\ pc[p] = "storeUser"
    /\ conversations' =
         createMessage(conversations, loc[p].conv,
                       Message(loc[p].query, TRUE, body[p].model, p))
    /\ loc' = [loc EXCEPT ![p].prompt =
                 promptToSend(loc[p].query, body[p].contextMode, loc[p].messages)]
    /\ Goto(p, IF body[p].model = CHAINED THEN "step1" ELSE "dispatch")
    /\ UNCHANGED <<apiKey, body, calls>>

\* the model name a function sends upstream
UpstreamModel(fn, id) ==
    IF fn = "callDeepSeekR1API" THEN "deepseek-ai/DeepSeek-R1-Distill-Llama-70B-free"
    ELSE id

\* one entry of a result's responses array
ModelResponse(model, text) == [model |-> model, response |-> text]

\* the model field processSingleModel and the other single paths report
ReportedModel(model) == IF model = DEEPSEEK THEN "deepseek-r1" ELSE model

\* a single-model request: processSingleModel, processMetaLlamaModel or
\* processOllamaModel; a failure reaches POST's catch block as thrown
SingleCall(p) ==
    /\ pc[p] = "dispatch"
    /\ LET fn == SingleRoute(body[p].model) IN
       \E o \in ClientOutcomes(fn, loc[p].prompt, apiKey) :
         /\ calls' = Append(calls, Call(p, fn, body[p].model,
                                        UpstreamModel(fn, body[p].model),
                                        loc[p].prompt, 1, apiKey, o))
         /\ IF o.ok
            THEN /\ loc' = [loc EXCEPT
                      ![p].responses = <<ModelResponse(ReportedModel(body[p].model), o.text)>>,
                      ![p].finalOutput = o.text]
                 /\ Goto(p, "store")
            ELSE /\ Reply(p, InternalServerError(o.msg))
                 /\ UNCHANGED loc
    /\ UNCHANGED <<apiKey, conversations, body>>

\* the error processChainedRequest's catch block throws
ChainingFailed(msg) == <<"Chaining failed: ">> \o msg

\* the message of the error a step throws without calling a client
NoClientError(route, which, m) ==
    IF route = "TypeError"
    THEN <<"Cannot read properties of undefined (reading 'startsWith')">>
    ELSE <<"Unsupported ", which, " model: ", m>>

\* a step that swallows its client's error and goes on
StepReturnedAlways(o) == TRUE

\* whether the awaited call of a step returned: a throw leaves the try block
\* for processChainedRequest's catch
StepReturned(o) == o.ok

\* the two steps' texts merged
chainFinalOutputMerged(firstResponse, secondResponse) == firstResponse \o secondResponse

\* finalOutput of processChainedRequest's result
chainFinalOutput(firstResponse, secondResponse) == secondResponse

\* step 1 of processChainedRequest
ChainStep1(p) ==
    /\ pc[p] = "step1"
    /\ LET m == body[p].firstModel
           fn == ChainRoute(m)
       IN
        IF fn \in {"TypeError", "unsupported"}
        THEN /\ Reply(p, InternalServerError(ChainingFailed(NoClientError(fn, "first", m))))
             /\ UNCHANGED <<loc, calls>>
        ELSE \E o \in ClientOutcomes(fn, loc[p].prompt, apiKey) :
             /\ calls' = Append(calls, Call(p, fn, m, UpstreamModel(fn, m),
                                            loc[p].prompt, 1, apiKey, o))
             /\ IF StepReturned(o)
                THEN /\ loc' = [loc EXCEPT ![p].responses = <<ModelResponse(m, o.text)>>]
                     /\ Goto(p, "step2")
                ELSE /\ Reply(p, InternalServerError(ChainingFailed(o.msg)))
                     /\ UNCHANGED loc
    /\ UNCHANGED <<apiKey, conversations, body>>

\* step 2 of processChainedRequest
ChainStep2(p) ==
    /\ pc[p] = "step2"
    /\ LET m == body[p].secondModel
           fn == ChainRoute(m)
           firstResponse == loc[p].responses[1].response
           prompt == SecondPrompt(loc[p].prompt, body[p].firstModel, m, firstResponse)
       IN
        IF fn \in {"TypeError", "unsupported"}
        THEN /\ Reply(p, InternalServerError(ChainingFailed(NoClientError(fn, "second", m))))
             /\ UNCHANGED <<loc, calls>>
        ELSE \E o \in ClientOutcomes(fn, prompt, apiKey) :
             /\ calls' = Append(calls, Call(p, fn, m, UpstreamModel(fn, m),
                                            prompt, 2, apiKey, o))
             /\ IF StepReturned(o)
                THEN /\ loc' = [loc EXCEPT
                          ![p].responses = Append(@, ModelResponse(m, o.text)),
                          ![p].finalOutput = chainFinalOutput(firstResponse, o.text)]
                     /\ Goto(p, "store")
                ELSE /\ Reply(p, InternalServerError(ChainingFailed(o.msg)))
                     /\ UNCHANGED loc
    /\ UNCHANGED <<apiKey, conversations, body>>

\* message.create rejects a content that is not a string: in single mode the
\* content is result.finalOutput || result, the result object itself when
\* the final output is the empty string
ContentIsString(model, finalOutput) == model = CHAINED \/ finalOutput # <<>>

NextModelMessageUntagged(p, model, l) == Message(l.finalOutput, FALSE, model, p)

\* the message message.create is asked for next: one per entry of responses
\* in chained mode, the final output under the request's model otherwise
NextModelMessage(p, model, l) ==
    IF model = CHAINED
    THEN Message(l.responses[l.stored + 1].response, FALSE,
                 l.responses[l.stored + 1].model, p)
    ELSE Message(l.finalOutput, FALSE, model, p)

\* how many model messages the request stores
ToStore(model, l) == IF model = CHAINED THEN Len(l.responses) ELSE 1

\* one message.create of a model-authored message
StoreModelMessage(p) ==
    /\ pc[p] = "store"
    /\ IF ~ContentIsString(body[p].model, loc[p].finalOutput)
       THEN /\ Reply(p, InternalServerError(<<"Invalid prisma.message.create() invocation">>))
            /\ UNCHANGED <<conversations, loc>>
       ELSE /\ conversations' =
                 createMessage(conversations, loc[p].conv,
                               NextModelMessage(p, body[p].model, loc[p]))
            /\ loc' = [loc EXCEPT ![p].stored = @ + 1]
            /\ Goto(p, IF loc[p].stored + 1 = ToStore(body[p].model, loc[p])
                       THEN "refetch" ELSE "store")
    /\ UNCHANGED <<apiKey, body, calls>>

\* the payload of a successful chat request
ChatResponse(l, id, messages) ==
    [NoResponse EXCEPT !.status = 200, !.kind = "chat",
                       !.responses = l.responses, !.finalOutput = l.finalOutput,
                       !.conversationId = id, !.messages = messages]

\* conversation.findUnique with its messages, then the response
Respond(p) ==
    /\ pc[p] = "refetch"
    /\ Reply(p, ChatResponse(loc[p], loc[p].conv, MessagesOf(conversations, loc[p].conv)))
    /\ UNCHANGED <<apiKey, conversations, body, loc, calls>>

POST(p) ==
    \/ FindUser(p)
    \/ ListConversations(p)
    \/ QueryTrimThrows(p)
    \/ HistoryById(p)
    \/ HistoryFallback(p)
    \/ Validate(p)
    \/ LoadConversation(p)
    \/ StoreUserMessage(p)
    \/ SingleCall(p)
    \/ ChainStep1(p)
    \/ ChainStep2(p)
    \/ StoreModelMessage(p)
    \/ Respond(p)

Next == \E p \in Procs : POST(p)

Spec == Init /\ [][Next]_vars

----------------------------------------------------------------------------
(* The handler over a persistence collaborator that can fail *)

PrismaError == <<"PrismaClientKnownRequestError: Can't reach database server">>

\* whether the handler's next stretch starts with a call of prisma
AtPersistenceCall(p) ==
    \/ /\ pc[p] = "start"
       /\ body[p].parses
       /\ Truthy(body[p].userEmail) /\ IsString(body[p].userEmail)
    \/ /\ pc[p] = "route"
       /\ \/ body[p].listConversations
          \/ ~TrimThrows(body[p].query) /\ IsHistoryRequest(body[p].query)
    \/ pc[p] \in {"conversation", "storeUser", "store", "refetch"}

\* an awaited prisma call rejects: POST's catch block answers
PersistenceThrows(p) ==
    /\ AtPersistenceCall(p)
    /\ Reply(p, InternalServerError(PrismaError))
    /\ loc' = [loc EXCEPT ![p].dbError = PrismaError]
    /\ UNCHANGED <<apiKey, conversations, body, calls>>

NextFaulty == Next \/ \E p \in Procs : PersistenceThrows(p)

SpecFaulty == Init /\ [][NextFaulty]_vars

----------------------------------------------------------------------------
(* The handler on a conversation with a long history: single-model         *)
(* requests with and without context mode                                  *)

\* a history of n messages, users and models in turn, every text different,
\* the messages at positions e and w (if any) stored empty and blank
History(n, e, w) ==
    [i \in 1..n |->
        Message(IF i = e THEN <<>> ELSE IF i = w THEN <<" ">> ELSE <<"m", ToString(i)>>,
                i % 2 = 1, SCIRA, 0)]

Histories == {History(n, e, w) : n \in 0..MaxHistory, e \in 0..MaxHistory, w \in 0..MaxHistory}

InitContext ==
    /\ apiKey = TRUE
    /\ \E h \in Histories :
         conversations = <<[id |-> "c1", userId |-> "u1", messages |-> h]>>
    /\ \E m \in {SCIRA, DEEPSEEK}, x \in BOOLEAN :
         body = [p \in Procs |->
                   IF p = 1
                   THEN Body(TRUE, "u1", FALSE, JsString(<<"q">>), m,
                             UNDEFINED, UNDEFINED, "c1", x, FALSE, FALSE)
                   ELSE MalformedBody]
    /\ pc = [p \in Procs |-> IF p = 1 THEN "start" ELSE "off"]
    /\ loc = [p \in Procs |-> NoLocals]
    /\ resp = [p \in Procs |-> NoResponse]
    /\ calls = <<>>
    /\ scraper = Off
    /\ fetcher = Off
    /\ normal = Off

NextContext ==
    \E p \in Procs :
        \/ FindUser(p)
        \/ Validate(p)
        \/ LoadConversation(p)
        \/ StoreUserMessage(p)
        \/ SingleCall(p)
        \/ StoreModelMessage(p)
        \/ Respond(p)

SpecContext == InitContext /\ [][NextContext]_vars

----------------------------------------------------------------------------
(* Two requests of one user on one conversation, their handlers interleaved *)
(* at every await: nothing but the store is shared between them            *)

InitConcurrent ==
    /\ apiKey = TRUE
    /\ \E k \in 0..MaxPrior :
         conversations = <<[id |-> "c1", userId |-> "u1",
                            messages |-> SubSeq(PriorMessages, 1, k)]>>
    /\ \E m \in [Procs -> {<<SCIRA, UNDEFINED, UNDEFINED>>, <<CHAINED, SCIRA, DEEPSEEK>>}] :
         body = [p \in Procs |->
                   Body(TRUE, "u1", FALSE, JsString(<<"q">>), m[p][1], m[p][2], m[p][3],
                        "c1", FALSE, FALSE, FALSE)]
    /\ pc = [p \in Procs |-> "start"]
    /\ loc = [p \in Procs |-> NoLocals]
    /\ resp = [p \in Procs |-> NoResponse]
    /\ calls = <<>>
    /\ scraper = Off
    /\ fetcher = Off
    /\ normal = Off

NextConcurrent ==
    \E p \in Procs :
        \/ FindUser(p)
        \/ Validate(p)
        \/ LoadConversation(p)
        \/ StoreUserMessage(p)
        \/ SingleCall(p)
        \/ ChainStep1(p)
        \/ ChainStep2(p)
        \/ StoreModelMessage(p)
        \/ Respond(p)

SpecConcurrent == InitConcurrent /\ [][NextConcurrent]_vars

----------------------------------------------------------------------------
(* formatResponse: the four regular-expression passes, the markdown round  *)
(* trip and the final trim, on text whose chunks are single characters      *)

Digits == {"0", "1", "2", "3", "4", "5", "6", "7", "8", "9"}

\* length of the longest stretch of characters of class S that starts at i
RECURSIVE Run(_, _, _)
Run(t, i, S) ==
    IF i > Len(t) \/ t[i] \notin S THEN 0 ELSE 1 + Run(t, i + 1, S)

\* ^ under the m flag: the start of the text or the position after a line break
AtLineStart(t, i) == i = 1 \/ t[i - 1] = "\n"

\* position of the last line break in t[i..j], 0 when there is none
LastNewline(t, i, j) ==
    LET at == {k \in i..j : t[k] = "\n"}
    IN  IF at = {} THEN 0 ELSE CHOOSE k \in at : \A m \in at : m <= k

\* number of characters /^\s*\d+\s*\n/m matches at i, 0 when it does not match:
\* \s* and \d+ are greedy, the final \s* gives back up to the last line break
DigitLineMatch(t, i) ==
    IF ~AtLineStart(t, i) THEN 0
    ELSE LET w1 == Run(t, i, Whitespace)
             d  == Run(t, i + w1, Digits)
             w2 == Run(t, i + w1 + d, Whitespace)
             nl == LastNewline(t, i + w1 + d, i + w1 + d + w2 - 1)
         IN  IF d = 0 \/ nl = 0 THEN 0 ELSE nl - i + 1

\* number of characters /\s*\[\d+\]\s*/ matches at i, 0 when it does not match
CitationMatch(t, i) ==
    LET w1 == Run(t, i, Whitespace)
        d  == Run(t, i + w1 + 1, Digits)
        w2 == Run(t, i + w1 + d + 2, Whitespace)
    IN  IF /\ i + w1 <= Len(t) /\ t[i + w1] = "["
           /\ d > 0
           /\ i + w1 + d + 1 <= Len(t) /\ t[i + w1 + d + 1] = "]"
        THEN w1 + d + 2 + w2
        ELSE 0

\* number of characters /\s+\n/ matches at i, 0 when it does not match
SpaceBeforeNewlineMatch(t, i) ==
    LET w  == Run(t, i, Whitespace)
        nl == LastNewline(t, i + 1, i + w - 1)
    IN  IF nl = 0 THEN 0 ELSE nl - i + 1

\* number of characters /\n{3,}/ matches at i, 0 when it does not match
BlankLinesMatch(t, i) ==
    LET n == Run(t, i, {"\n"}) IN IF n >= 3 THEN n ELSE 0

\* String.prototype.replace with a g-flagged pattern: one pass from left to
\* right over the original text, the search resuming after each match
RECURSIVE RemoveDigitLines(_, _)
RemoveDigitLines(t, i) ==
    IF i > Len(t) THEN <<>>
    ELSE LET m == DigitLineMatch(t, i)
         IN  IF m > 0 THEN <<"\n">> \o RemoveDigitLines(t, i + m)
                      ELSE <<t[i]>> \o RemoveDigitLines(t, i + 1)

RECURSIVE RemoveCitations(_, _)
RemoveCitations(t, i) ==
    IF i > Len(t) THEN <<>>
    ELSE LET m == CitationMatch(t, i)
         IN  IF m > 0 THEN RemoveCitations(t, i + m)
                      ELSE <<t[i]>> \o RemoveCitations(t, i + 1)

RECURSIVE RemoveSpaceBeforeNewline(_, _)
RemoveSpaceBeforeNewline(t, i) ==
    IF i > Len(t) THEN <<>>
    ELSE LET m == SpaceBeforeNewlineMatch(t, i)
         IN  IF m > 0 THEN <<"\n">> \o RemoveSpaceBeforeNewline(t, i + m)
                      ELSE <<t[i]>> \o RemoveSpaceBeforeNewline(t, i + 1)

RECURSIVE CollapseBlankLines(_, _)
CollapseBlankLines(t, i) ==
    IF i > Len(t) THEN <<>>
    ELSE LET m == BlankLinesMatch(t, i)
         IN  IF m > 0 THEN <<"\n", "\n">> \o CollapseBlankLines(t, i + m)
                      ELSE <<t[i]>> \o CollapseBlankLines(t, i + 1)

\* the cleaned text handed to the markdown processor
cleaned(response) ==
    CollapseBlankLines(
        RemoveSpaceBeforeNewline(
            RemoveCitations(
                RemoveDigitLines(response, 1), 1), 1), 1)

\* remark-parse on text of letters, digits, brackets, backslashes, spaces and
\* line breaks: a backslash before a bracket is a character escape
RECURSIVE Unescape(_, _)
Unescape(t, i) ==
    IF i > Len(t) THEN <<>>
    ELSE IF t[i] = "\\" /\ i < Len(t) /\ t[i + 1] \in {"[", "]"}
    THEN <<t[i + 1]>> \o Unescape(t, i + 2)
    ELSE <<t[i]>> \o Unescape(t, i + 1)

\* remark-stringify on such text: an opening bracket in a paragraph is escaped
RECURSIVE Escape(_, _)
Escape(t, i) ==
    IF i > Len(t) THEN <<>>
    ELSE IF t[i] = "[" THEN <<"\\", "[">> \o Escape(t, i + 1)
    ELSE <<t[i]>> \o Escape(t, i + 1)

\* a space is dropped when only spaces separate it from the start or the end
\* of its line: paragraph lines are stored without their indentation
RECURSIVE StripLines(_, _)
StripLines(t, i) ==
    IF i > Len(t) THEN <<>>
    ELSE LET before == {k \in 1..(i - 1) : t[k] # " "}
             after  == i + Run(t, i, {" "})
             leads  == \A k \in before : \E m \in k..(i - 1) : t[m] = "\n"
             trails == after > Len(t) \/ t[after] = "\n"
         IN  IF t[i] = " " /\ (leads \/ trails)
             THEN StripLines(t, i + 1)
             ELSE <<t[i]>> \o StripLines(t, i + 1)

\* blank lines only separate paragraphs: any number of them is written as one
RECURSIVE OneBlankLine(_, _)
OneBlankLine(t, i) ==
    IF i > Len(t) THEN <<>>
    ELSE LET n == Run(t, i, {"\n"})
         IN  IF n >= 2 THEN <<"\n", "\n">> \o OneBlankLine(t, i + n)
                       ELSE <<t[i]>> \o OneBlankLine(t, i + 1)

\* unified().use(remarkParse)...use(remarkStringify, ...).process(cleaned)
remarkProcess(t) ==
    Escape(OneBlankLine(StripLines(Unescape(t, 1), 1), 1), 1)

formatResponse(response) == Trim(remarkProcess(cleaned(response)))

\* the handler when a specification looks at one client or at formatResponse
HandlerOff ==
    /\ apiKey = FALSE
    /\ conversations = <<>>
    /\ body = [p \in Procs |-> MalformedBody]
    /\ pc = [p \in Procs |-> "off"]
    /\ loc = [p \in Procs |-> NoLocals]
    /\ resp = [p \in Procs |-> NoResponse]
    /\ calls = <<>>

----------------------------------------------------------------------------
(* formatResponse applied to a text, and again to its own result *)

TextAlphabet   == {"a", "1", "[", "]", " ", "\n"}
MarkerAlphabet == {"[", "]", "1"}

SeqsUpTo(S, n) == UNION {[1..k -> S] : k \in 0..n}

\* a line indented by four spaces is code to the markdown processor, which
\* remarkProcess does not cover
Indented(t) == \E i \in 1..Len(t) : AtLineStart(t, i) /\ Run(t, i, {" "}) >= 4

Texts ==
    {t \in SeqsUpTo(TextAlphabet, MaxText) : ~Indented(t)}
        \cup SeqsUpTo(MarkerAlphabet, MaxMarkers)

InitFormat ==
    /\ HandlerOff
    /\ scraper = Off
    /\ fetcher = Off
    /\ \E t \in Texts : normal = [pc |-> "raw", input |-> t, once |-> <<>>, twice |-> <<>>]

Format ==
    /\ normal.pc = "raw"
    /\ normal' = [normal EXCEPT !.pc = "once", !.once = formatResponse(normal.input)]
    /\ UNCHANGED <<handlerVars, scraper, fetcher>>

FormatAgain ==
    /\ normal.pc = "once"
    /\ normal' = [normal EXCEPT !.pc = "twice", !.twice = formatResponse(normal.once)]
    /\ UNCHANGED <<handlerVars, scraper, fetcher>>

NextFormat == Format \/ FormatAgain

SpecFormat == InitFormat /\ [][NextFormat]_vars

----------------------------------------------------------------------------
(* callSciraAPI step by step: one action per awaited browser operation and  *)
(* one per iteration of the polling loop                                    *)

maxWaitTime     == 40000
pollInterval    == 1000
maxStableChecks == 3

\* String.prototype.toLowerCase on the letters used here
RECURSIVE toLowerCase(_)
toLowerCase(t) ==
    IF t = <<>> THEN <<>>
    ELSE <<IF Head(t) = "Q" THEN "q" ELSE Head(t)>> \o toLowerCase(Tail(t))

\* prompts the function is called with: two blank ones and a question
ScraperPrompts == {<<>>, <<" ">>, <<"q">>}

\* what page.$$ finds: no response element yet, or the innerText of the last
\* one (empty, the echoed prompt, or an answer that may still be growing)
NoElement == <<"<no element>">>
PageTexts == {<<>>, <<" ">>, <<"Q">>, <<"x">>, <<"x", " ">>, <<"y", "[", "1", "]">>}

\* time spent in page.$$ and innerText on top of the sleep of an iteration
ReadDelays == {0, pollInterval}

PromptRequired == <<"Prompt must be a non-empty string">>
Wrapped(msg)   == <<"Failed to get response from Scira: ">> \o msg
\* the placeholder of line 286, without the warning sign it starts with
Placeholder    == <<"No complete response received within the time limit.">>

\* the last k elements of a window after adding one
Shift(w, x, k) ==
    LET v == Append(w, x) IN SubSeq(v, Len(v) - (IF Len(v) < k THEN Len(v) ELSE k) + 1, Len(v))

InitScraper ==
    /\ HandlerOff
    /\ fetcher = Off
    /\ normal = Off
    /\ \E prompt \in ScraperPrompts :
         scraper = [pc |-> "check", prompt |-> prompt,
                    launched |-> FALSE, closeCalled |-> FALSE, closed |-> FALSE,
                    lastText |-> <<>>, stableCounter |-> 0, elapsed |-> 0,
                    ticks |-> <<>>, reads |-> <<>>,
                    exit |-> "none", cause |-> <<>>, result |-> Thrown(<<>>)]

ScraperStep(next) ==
    /\ scraper' = next
    /\ UNCHANGED <<handlerVars, fetcher, normal>>

\* a throw outside every try block: the caller sees the error as it is
ThrowRaw(msg) ==
    [scraper EXCEPT !.pc = "done", !.exit = "raw", !.cause = msg, !.result = Thrown(msg)]

\* a throw inside the second try block: wrapped by the catch, then finally
ThrowWrapped(msg) ==
    [scraper EXCEPT !.pc = "finally", !.exit = "wrapped", !.cause = msg,
                    !.result = Thrown(Wrapped(msg))]

\* line 173
CheckPrompt ==
    /\ scraper.pc = "check"
    /\ ScraperStep(IF Trim(scraper.prompt) = <<>>
                   THEN ThrowRaw(PromptRequired)
                   ELSE [scraper EXCEPT !.pc = "launch"])

\* chromium.launch, and the catch of the first try block that rethrows
Launch ==
    /\ scraper.pc = "launch"
    /\ \E ok \in BOOLEAN :
         ScraperStep(IF ok THEN [scraper EXCEPT !.pc = "newContext", !.launched = TRUE]
                     ELSE ThrowRaw(<<"browserType.launch: Failed to launch">>))

\* browser.newContext, same try block
NewContext ==
    /\ scraper.pc = "newContext"
    /\ \E ok \in BOOLEAN :
         ScraperStep(IF ok THEN [scraper EXCEPT !.pc = "newPage"]
                     ELSE ThrowRaw(<<"browser.newContext: Target closed">>))

\* context.newPage, same try block
NewPage ==
    /\ scraper.pc = "newPage"
    /\ \E ok \in BOOLEAN :
         ScraperStep(IF ok THEN [scraper EXCEPT !.pc = "goto"]
                     ELSE ThrowRaw(<<"browserContext.newPage: Target closed">>))

\* page.goto with its 30 s timeout
Navigate ==
    /\ scraper.pc = "goto"
    /\ \E ok \in BOOLEAN :
         ScraperStep(IF ok THEN [scraper EXCEPT !.pc = "waitTextarea"]
                     ELSE ThrowWrapped(<<"page.goto: Timeout 30000ms exceeded.">>))

\* page.waitForSelector('textarea') with its 10 s timeout
WaitTextarea ==
    /\ scraper.pc = "waitTextarea"
    /\ \E ok \in BOOLEAN :
         ScraperStep(IF ok THEN [scraper EXCEPT !.pc = "fill"]
                     ELSE ThrowWrapped(<<"page.waitForSelector: Timeout 10000ms exceeded.">>))

\* page.fill, the short delay and keyboard.press("Enter")
FillAndSubmit ==
    /\ scraper.pc = "fill"
    /\ \E ok \in BOOLEAN :
         ScraperStep(IF ok THEN [scraper EXCEPT !.pc = "waitResponse"]
                     ELSE ThrowWrapped(<<"page.fill: Target closed">>))

\* page.waitForSelector(responseSelector) with its 10 s timeout; the loop's
\* variables are initialised after it
WaitResponse ==
    /\ scraper.pc = "waitResponse"
    /\ \E ok \in BOOLEAN :
         ScraperStep(IF ok THEN [scraper EXCEPT !.pc = "poll", !.lastText = <<>>,
                                                !.stableCounter = 0, !.elapsed = 0]
                     ELSE ThrowWrapped(<<"page.waitForSelector: Timeout 10000ms exceeded.">>))

\* the test of line 263: the tick reads nothing new to look at
Skipped(latest, prompt) ==
    latest = <<>> \/ toLowerCase(latest) = toLowerCase(prompt)

StabilizedAtOnce(counter) == counter >= 1

\* the test of line 271
Stabilized(counter) == counter >= maxStableChecks

\* one iteration of the while loop: the read, the comparison with lastText
\* and either the return or the sleep
Poll ==
    /\ scraper.pc = "poll"
    /\ scraper.elapsed < maxWaitTime
    /\ \E raw \in PageTexts \cup {NoElement}, delay \in ReadDelays, ok \in BOOLEAN :
         LET latest == Trim(raw)
             later  == scraper.elapsed + delay + pollInterval
             seen   == [scraper EXCEPT !.ticks = Shift(@, latest, maxStableChecks)]
             read   == [seen EXCEPT !.reads = Shift(@, latest, maxStableChecks)]
         IN  ScraperStep(
               IF ~ok THEN ThrowWrapped(<<"elementHandle.innerText: Target closed">>)
               ELSE IF raw = NoElement
               THEN [scraper EXCEPT !.ticks = Shift(@, NoElement, maxStableChecks),
                                    !.elapsed = later]
               ELSE IF Skipped(latest, scraper.prompt)
               THEN [seen EXCEPT !.elapsed = later]
               ELSE IF latest = scraper.lastText
               THEN IF Stabilized(scraper.stableCounter + 1)
                    THEN [read EXCEPT !.pc = "finally", !.exit = "stable",
                                      !.stableCounter = @ + 1,
                                      !.elapsed = @ + delay,
                                      !.result = Returned(formatResponse(latest))]
                    ELSE [read EXCEPT !.stableCounter = @ + 1, !.elapsed = later]
               ELSE [read EXCEPT !.stableCounter = 0, !.lastText = latest,
                                 !.elapsed = later])

partialResponseLost(lastText) == Placeholder

\* line 286: lastText || placeholder
partialResponse(lastText) == IF lastText # <<>> THEN lastText ELSE Placeholder

\* the loop condition fails: the ceiling is reached
TimedOut ==
    /\ scraper.pc = "poll"
    /\ scraper.elapsed >= maxWaitTime
    /\ ScraperStep([scraper EXCEPT !.pc = "finally", !.exit = "timeout",
                      !.result = Returned(formatResponse(partialResponse(scraper.lastText)))])

\* a finally block that lets the rejection of browser.close() escape
AfterCloseRaised(result, ok) ==
    IF ok THEN result ELSE Thrown(<<"browser has been closed">>)

\* line 295: .catch(console.error) settles the rejection of browser.close(),
\* so the completion of the try or of the catch block stands
AfterClose(result, ok) == result

\* finally: browser.close(), whose rejection is only logged
CloseBrowser ==
    /\ scraper.pc = "finally"
    /\ \E ok \in BOOLEAN :
         ScraperStep([scraper EXCEPT !.pc = "done", !.closeCalled = TRUE, !.closed = ok,
                                     !.result = AfterClose(scraper.result, ok)])

NextScraper ==
    \/ CheckPrompt
    \/ Launch
    \/ NewContext
    \/ NewPage
    \/ Navigate
    \/ WaitTextarea
    \/ FillAndSubmit
    \/ WaitResponse
    \/ Poll
    \/ TimedOut
    \/ CloseBrowser

SpecScraper == InitScraper /\ [][NextScraper]_vars

----------------------------------------------------------------------------
(* callDeepSeekR1API, processMetaLlamaModel and processOllamaModel step by  *)
(* step: the fetch is sent, the upstream answers, the response is handled   *)

\* completion.replace(/<think>[\s\S]*?<\/think>/g, ""): each opening marker
\* is removed together with everything up to the nearest closing marker
RECURSIVE StripThink(_, _)
StripThink(t, i) ==
    IF i > Len(t) THEN <<>>
    ELSE LET closing == {j \in (i + 1)..Len(t) : t[j] = "</think>"}
         IN  IF t[i] = "<think>" /\ closing # {}
             THEN StripThink(t, 1 + CHOOSE j \in closing : \A k \in closing : j <= k)
             ELSE <<t[i]>> \o StripThink(t, i + 1)

\* the completions of the model: markers, a word and a space in any order
Completions == SeqsUpTo({"<think>", "</think>", "a", " "}, MaxCompletion)

\* the body of an HTTP response: one that cannot be read, text that is not
\* JSON, the JSON value null, or a JSON object with the fields the clients
\* look at (error, choices[0].message.content, message.content)
HttpBody(kind, error, detail, choices, message, content) ==
    [kind |-> kind, error |-> error, detail |-> detail,
     choices |-> choices, message |-> message, content |-> content]

PlainBody(kind, text) == HttpBody(kind, "absent", text, "absent", "absent", JsUndefined)

ErrorBodies ==
    {PlainBody("unreadable", <<>>), PlainBody("null", <<"null">>),
     PlainBody("text", <<>>), PlainBody("text", <<"Bad Gateway">>),
     PlainBody("object", <<>>)}
    \cup {HttpBody("object", e, d, "absent", "absent", JsUndefined) :
            e \in {"string", "objectWithMessage"}, d \in {<<>>, <<"model overloaded">>}}
    \cup {HttpBody("object", "object", <<>>, "absent", "absent", JsUndefined)}

OkBodies ==
    {PlainBody("text", <<"<html>">>), PlainBody("null", <<"null">>)}
    \cup {HttpBody("object", "absent", <<>>, c, "absent", JsUndefined) :
            c \in {"absent", "empty", "noMessage", "message"}}
    \cup {HttpBody("object", "absent", <<>>, "absent", "present", JsUndefined)}
    \cup {HttpBody("object", "absent", <<>>, "message", "absent", JsString(t)) :
            t \in Completions}
    \cup {HttpBody("object", "absent", <<>>, "absent", "present", JsString(t)) :
            t \in Completions}

StatusLine == <<"HTTP 500 - Internal Server Error">>

Responses ==
    {[ok |-> FALSE, body |-> b] : b \in ErrorBodies}
        \cup {[ok |-> TRUE, body |-> b] : b \in OkBodies}

\* fetch rejects: no response at all
NoAnswer == [ok |-> FALSE, body |-> PlainBody("none", <<>>)]

\* errorData: the text of the body, where response.text() yields one
errorData(b) ==
    IF b.kind = "object" THEN <<"{...}">>
    ELSE IF b.kind = "unreadable" THEN <<>>
    ELSE b.detail

\* errorMessage of the three clients for a response that is not ok
errorMessage(b) ==
    IF b.kind = "unreadable" THEN StatusLine
    ELSE IF b.kind \in {"text", "null"}
    THEN (IF errorData(b) # <<>> THEN errorData(b) ELSE StatusLine)
    ELSE IF b.error = "objectWithMessage" /\ b.detail # <<>> THEN b.detail
    ELSE IF b.error \in {"objectWithMessage", "object"} THEN <<"[object Object]">>
    ELSE IF b.error = "string" /\ b.detail # <<>> THEN b.detail
    ELSE StatusLine

\* the hosted clients on a response: the value returned or the error thrown
\* inside the try block
TogetherResult(r) ==
    IF r = NoAnswer THEN Thrown(<<"fetch failed">>)
    ELSE IF ~r.ok THEN Thrown(<<"Together AI API error: ">> \o errorMessage(r.body))
    ELSE IF r.body.kind \in {"unreadable", "text"}
    THEN Thrown(<<"Unexpected token in JSON at position 0">>)
    ELSE IF r.body.kind = "null"
    THEN Thrown(<<"Cannot read properties of null (reading 'choices')">>)
    ELSE IF r.body.choices # "message"
    THEN Thrown(<<"Unexpected response format from Together AI API">>)
    ELSE IF r.body.content.kind # "string"
    THEN Thrown(<<"Cannot read properties of undefined (reading 'replace')">>)
    ELSE Returned(Trim(StripThink(r.body.content.s, 1)))

\* processOllamaModel on a response
OllamaResult(r) ==
    IF r = NoAnswer THEN Thrown(<<"fetch failed">>)
    ELSE IF ~r.ok THEN Thrown(<<"Ollama API error: ">> \o errorMessage(r.body))
    ELSE IF r.body.kind \in {"unreadable", "text"}
    THEN Thrown(<<"Unexpected token in JSON at position 0">>)
    ELSE IF r.body.kind = "null"
    THEN Thrown(<<"Cannot read properties of null (reading 'message')">>)
    ELSE IF r.body.message = "present" /\ ~Falsy(r.body.content)
    THEN Returned(r.body.content.s)
    ELSE Thrown(<<"Unexpected response format from Ollama API">>)

\* the catch block of each function: callDeepSeekR1API wraps, the others rethrow
Caught(fn, o) ==
    IF fn = "callDeepSeekR1API" /\ ~o.ok
    THEN Thrown(<<"Failed to get response from DeepSeek R1: ">> \o o.msg)
    ELSE o

KeyNotFound ==
    <<"Together API key not found. Please set the TOGETHER_API_KEY environment variable.">>

InitFetcher ==
    /\ HandlerOff
    /\ scraper = Off
    /\ normal = Off
    /\ \E fn \in HostedClient \cup LocalClient, key \in BOOLEAN :
         fetcher = [pc |-> "entry", fn |-> fn, haveKey |-> key,
                    response |-> NoAnswer, result |-> Thrown(<<>>)]

FetcherStep(next) ==
    /\ fetcher' = next
    /\ UNCHANGED <<handlerVars, scraper, normal>>

\* the credential check of the hosted clients, then fetch is called: it
\* carries no timeout and no abort signal
Fetch ==
    /\ fetcher.pc = "entry"
    /\ FetcherStep(IF fetcher.fn \in HostedClient /\ ~fetcher.haveKey
                   THEN [fetcher EXCEPT !.pc = "done",
                                        !.result = Caught(fetcher.fn, Thrown(KeyNotFound))]
                   ELSE [fetcher EXCEPT !.pc = "pending"])

\* the upstream answers with a response, or the connection fails
UpstreamAnswers ==
    /\ fetcher.pc = "pending"
    /\ \E r \in Responses \cup {NoAnswer} :
         FetcherStep([fetcher EXCEPT !.pc = "answered", !.response = r])

\* everything after the await of fetch
HandleResponse ==
    /\ fetcher.pc = "answered"
    /\ FetcherStep([fetcher EXCEPT
            !.pc = "done",
            !.result = Caught(fetcher.fn,
                              IF fetcher.fn \in LocalClient
                              THEN OllamaResult(fetcher.response)
                              ELSE TogetherResult(fetcher.response))])

NextFetcher == Fetch \/ UpstreamAnswers \/ HandleResponse

SpecFetcher == InitFetcher /\ [][NextFetcher]_vars

\* the steps of the function itself are taken when they can be; nothing makes
\* the upstream answer
SpecFetcherFair == SpecFetcher /\ WF_vars(Fetch) /\ WF_vars(HandleResponse)

----------------------------------------------------------------------------
(* Properties *)

\* the invocations a request made, in order
CallsOf(p) == SelectSeq(calls, LAMBDA c : c.req = p)

\* a call of step 1 of a chained request whose client threw
FailedFirstStep(c) == body[c.req].model = CHAINED /\ c.step = 1 /\ ~c.out.ok

\* C1: when the client of the first model of a chain fails, that call stays
\* the request's only client invocation (step 2's client is never called),
\* and the request has ended with the one error "Chaining failed: <cause>"
C1_FailedFirstStepAbortsChain ==
    \A i \in 1..Len(calls) :
        FailedFirstStep(calls[i]) =>
            /\ \A j \in 1..Len(calls) : calls[j].req = calls[i].req => j = i
            /\ pc[calls[i].req] = "done"
            /\ resp[calls[i].req] =
                 InternalServerError(<<"Chaining failed: ">> \o calls[i].out.msg)

C1_Witness == \E i \in 1..Len(calls) : FailedFirstStep(calls[i])

\* C2: a successful result lists one response in single mode and two in
\* chained mode, the texts its client calls returned in invocation order
\* under the first and then the second model, and its finalOutput is the
\* text of the last response alone
C2_ResponsesInOrderFinalIsLast ==
    \A p \in Procs :
        resp[p].kind = "chat" =>
            LET r == resp[p]
                mine == CallsOf(p)
                n == IF body[p].model = CHAINED THEN 2 ELSE 1
            IN  /\ Len(r.responses) = n
                /\ Len(mine) = n
                /\ \A k \in 1..n :
                     /\ mine[k].step = k /\ mine[k].out.ok
                     /\ r.responses[k].response = mine[k].out.text
                /\ body[p].model = CHAINED =>
                     /\ r.responses[1].model = body[p].firstModel
                     /\ r.responses[2].model = body[p].secondModel
                /\ r.finalOutput = mine[n].out.text

C2_Witness ==
    \E p \in Procs :
        /\ resp[p].kind = "chat"
        /\ body[p].model = CHAINED
        /\ resp[p].responses[1].response = <<"a">>
        /\ resp[p].responses[2].response = <<"b">>

\* the text the chain was given as its query
ChainQuery(p) == loc[p].prompt

\* C3: in step 2 of a chain, whatever the second model, the prompt handed
\* to its client embeds verbatim the chain's query and the whole answer of
\* step 1
C3_SecondPromptEmbedsQueryAndAnswer ==
    \A i \in 1..Len(calls) :
        calls[i].step = 2 =>
            /\ Embeds(calls[i].prompt, ChainQuery(calls[i].req))
            /\ Embeds(calls[i].prompt, loc[calls[i].req].responses[1].response)

\* an identifier of one of the allow-lists that names a model
Resolvable(id) == id \in AcceptedModels \ {CHAINED}

\* a body one of whose model identifiers resolves to no client
Unresolvable(b) ==
    \/ b.model \notin AcceptedModels
    \/ b.model = CHAINED /\ (~Resolvable(b.firstModel) \/ ~Resolvable(b.secondModel))

\* C4: a client is only ever called for an identifier of the allow-lists,
\* and a request with an unresolvable identifier (its model, or the
\* firstModel or secondModel of a chain) has no client call that reaches
\* the network
C4_UnresolvableRejectedBeforeAnyCall ==
    /\ \A i \in 1..Len(calls) : Resolvable(calls[i].id)
    /\ \A p \in Procs :
         (body[p].parses /\ Unresolvable(body[p])) =>
             \A i \in 1..Len(calls) : calls[i].req = p => ~calls[i].net

\* the routing table of the claim: the clients an identifier may invoke
Dispatcher(id) ==
    IF id = SCIRA THEN ScrapedClient
    ELSE IF id = DEEPSEEK \/ id \in HostedGeneralModels THEN HostedClient
    ELSE IF id \in OllamaModels THEN LocalClient
    ELSE {}

\* C5: in single mode and in either step of a chain, a call made for an
\* identifier of the allow-lists goes to the client the one routing table
\* gives: scira to the scraped client, deepseek and the hosted general
\* models to the hosted client, the local models to the local client
C5_OneRoutingTable ==
    \A i \in 1..Len(calls) :
        Resolvable(calls[i].id) => calls[i].fn \in Dispatcher(calls[i].id)

\* C6: a request whose query is present but not a string is answered 400
\* "Query is required and must be a string", whatever its other fields,
\* and calls no model client
C6_NonStringQueryIs400 ==
    \A p \in Procs :
        (body[p].parses /\ body[p].query.kind = "number") =>
            /\ CallsOf(p) = <<>>
            /\ pc[p] = "done" =>
                 resp[p] = ErrorResponse(400, "Query is required and must be a string")

\* a query that is missing, empty, or made of whitespace only
BlankOrMissing(query) ==
    \/ query.kind = "undefined"
    \/ query.kind = "string" /\ \A i \in 1..Len(query.s) : query.s[i] \in Whitespace

C8_InvalidModelIs400 ==
    \A p \in Procs :
        (/\ body[p].parses
         /\ body[p].query.kind = "string" /\ Trim(body[p].query.s) # <<>>
         /\ Truthy(body[p].model) /\ body[p].model \notin AcceptedModels) =>
            /\ CallsOf(p) = <<>>
            /\ pc[p] = "done" =>
                 resp[p] = ErrorResponse(400, "Valid model selection is required")

\* a request that passes every check of POST but the credential's
ValidChat(b) ==
    /\ b.parses
    /\ b.userEmail \in Users
    /\ ~b.listConversations
    /\ b.query.kind = "string" /\ Trim(b.query.s) # <<>>
    /\ b.model \in AcceptedModels

C10_UnknownConversationIs404 ==
    \A p \in Procs :
        (/\ ValidChat(body[p]) /\ apiKey
         /\ Truthy(body[p].conversationId) /\ body[p].conversationId # "new"
         /\ findUnique(conversations, body[p].conversationId) = 0
         /\ pc[p] = "done") =>
            /\ resp[p].status = 404
            /\ resp[p].error = "Conversation not found"

\* C20: formatting is idempotent: for every non-empty text, formatting the
\* formatted text again gives the formatted text.
C20_FormatIdempotent ==
    (normal.pc = "twice" /\ normal.input # <<>>) => normal.twice = normal.once

\* a step of the polling loop that is followed by the sleep, and what it read
Tick == scraper.pc = "poll" /\ scraper'.elapsed > scraper.elapsed
Latest == scraper'.ticks[Len(scraper'.ticks)]

\* the step on which the loop returns because the text is stable
StableReturn == scraper.exit = "none" /\ scraper'.exit = "stable"

\* a window holds the same text, one the loop looks at, three times
ThreeTimes(w, prompt) ==
    /\ Len(w) = maxStableChecks
    /\ \A i \in 1..Len(w) : w[i] = w[Len(w)]
    /\ w[Len(w)] # NoElement
    /\ ~Skipped(w[Len(w)], prompt)

\* no iteration of the loop runs once the function has returned or thrown
NoPollAfterExit ==
    scraper.exit # "none" =>
        scraper'.ticks = scraper.ticks /\ scraper'.elapsed = scraper.elapsed

\* C11 as stated: the loop returns on the stabilization path only when the three
\* most recent ticks, the returning one included, all read the same
\* non-empty, non-echo text, whose formatted form is returned; a tick that
\* reads anything else resets the run to zero; no poll follows the return.
C11_ThreeMostRecentTicksAgree ==
    [][ /\ StableReturn =>
              /\ ThreeTimes(scraper'.ticks, scraper.prompt)
              /\ scraper'.result = Returned(formatResponse(Latest))
        /\ (Tick /\ Latest # scraper.lastText) => scraper'.stableCounter = 0
        /\ NoPollAfterExit ]_vars

\* C11 amended: the same of the three most recent reads that were not
\* skipped; a skipped tick (no element, empty text or the echoed prompt)
\* leaves the run as it is, a read of another text resets it to zero.
C11_ThreeMostRecentReadsAgree ==
    [][ /\ StableReturn =>
              /\ ThreeTimes(scraper'.reads, scraper.prompt)
              /\ scraper'.result = Returned(formatResponse(Latest))
        /\ (Tick /\ (Latest = NoElement \/ Skipped(Latest, scraper.prompt))) =>
              /\ scraper'.stableCounter = scraper.stableCounter
              /\ scraper'.reads = scraper.reads
        /\ (/\ Tick /\ Latest # NoElement /\ ~Skipped(Latest, scraper.prompt)
            /\ (scraper.reads = <<>> \/ Latest # scraper.reads[Len(scraper.reads)])) =>
              scraper'.stableCounter = 0
        /\ NoPollAfterExit ]_vars

\* a stable return whose three most recent ticks include a skipped one
C11_Witness ==
    /\ scraper.pc = "done"
    /\ scraper.exit = "stable"
    /\ \E i \in 1..Len(scraper.ticks) : scraper.ticks[i] \in {<<>>, NoElement}

C13_BrowserClosedOnEveryExit ==
    (scraper.pc = "done" /\ scraper.launched) => scraper.closeCalled

\* C14: every failure that reaches the caller is the wrapped error: the
\* wrapper prefix followed by the message of the cause.
C14_EveryFailureWrapped ==
    (scraper.pc = "done" /\ ~scraper.result.ok) =>
        scraper.result.msg = Wrapped(scraper.cause)

\* the last client call of a request has thrown
ClientFailed(p) ==
    CallsOf(p) # <<>> /\ ~CallsOf(p)[Len(CallsOf(p))].out.ok

\* C15: whatever the body and whichever client or persistence call fails,
\* the handler goes on until it has returned a JSON response; a failure
\* response has a 4xx or 5xx status and an error string, and one caused by
\* an exception carries the message of the cause in details.
C15_AlwaysAJsonResponse ==
    \A p \in Procs :
        /\ pc[p] \notin {"off", "done"} => ENABLED (POST(p) \/ PersistenceThrows(p))
        /\ pc[p] = "done" =>
            /\ resp[p].kind \in {"error", "list", "history", "chat"}
            /\ resp[p].kind # "error" => resp[p].status = 200
            /\ resp[p].kind = "error" =>
                  resp[p].status \in 400..599 /\ resp[p].error # ""
            /\ ClientFailed(p) =>
                  /\ resp[p].kind = "error"
                  /\ Embeds(resp[p].details, CallsOf(p)[Len(CallsOf(p))].out.msg)
            /\ loc[p].dbError # <<>> =>
                  resp[p].kind = "error" /\ resp[p].details = loc[p].dbError
            /\ ~body[p].parses =>
                  resp[p].kind = "error" /\ resp[p].details # <<>>

\* a message was stored, then a client failed; or the store failed after a
\* client had answered
C15_Witness ==
    \E p \in Procs :
        /\ pc[p] = "done"
        /\ loc[p].dbError # <<>>
        /\ CallsOf(p) # <<>>

\* a finished chat request that named a conversation its user owned before
OnExistingConversation(p) ==
    /\ pc[p] = "done"
    /\ resp[p].kind = "chat"
    /\ body[p].conversationId \in {"c1", "c2"}
    /\ findFirst(conversations, body[p].conversationId, body[p].userEmail) # 0

\* the model identifiers of a request's model messages, in order
ProducedBy(b) ==
    IF b.model = CHAINED THEN <<b.firstModel, b.secondModel>> ELSE <<b.model>>

\* C17: a successful request on an existing conversation of the user answers
\* with that conversation's id and its whole message sequence: the prior
\* messages, then the request's user message, then one model message per
\* model call, each tagged with the identifier of the model that produced it.
C17_MessagesArePriorThenThisExchange ==
    \A p \in Procs :
        OnExistingConversation(p) =>
            LET ms == resp[p].messages
                by == ProducedBy(body[p])
                k  == Len(ms) - Len(by) - 1
            IN  /\ resp[p].conversationId = body[p].conversationId
                /\ ms = MessagesOf(conversations, body[p].conversationId)
                /\ k \in 0..MaxPrior
                /\ SubSeq(ms, 1, k) = SubSeq(PriorMessages, 1, k)
                /\ ms[k + 1].isUser /\ ms[k + 1].req = p
                /\ Embeds(ms[k + 1].content, body[p].query.s)
                /\ Len(resp[p].responses) = Len(by)
                /\ \A j \in 1..Len(by) :
                      ms[k + 1 + j] =
                          Message(resp[p].responses[j].response, FALSE, by[j], p)

\* a chained request on a conversation that held messages already
C17_Witness ==
    \E p \in Procs :
        /\ OnExistingConversation(p)
        /\ body[p].model = CHAINED
        /\ Len(resp[p].messages) = MaxPrior + 3
        /\ MaxPrior > 0

\* the elements of a set of numbers in ascending order
RECURSIVE Ascending(_)
Ascending(S) ==
    IF S = {} THEN <<>>
    ELSE LET least == CHOOSE i \in S : \A j \in S : i <= j
         IN  <<least>> \o Ascending(S \ {least})

\* the messages the conversation held before the request
PriorTurns(id) == SelectSeq(MessagesOf(conversations, id), LAMBDA m : m.req = 0)

\* the positions of the ten most recent prior messages that are not blank
RecentTurns(prior) ==
    LET filled == {i \in 1..Len(prior) : Trim(prior[i].content) # <<>>}
    IN  {i \in filled : Cardinality({j \in filled : j > i}) < 10}

\* C18: in context mode the prompt sent to the model is the at most 10 most
\* recent non-empty prior messages in chronological order, each a line
\* 'User: ' or 'AI: ' by its author, followed by the current query once; the
\* request's own user message is not among the prior turns.
C18_ContextIsLastTenTurnsThenQuery ==
    \A i \in 1..Len(calls) :
        body[calls[i].req].contextMode =>
            LET b      == body[calls[i].req]
                prior  == PriorTurns(b.conversationId)
                turns  == Ascending(RecentTurns(prior))
                lines  == [k \in 1..Len(turns) |->
                              <<IF prior[turns[k]].isUser THEN "User: " ELSE "AI: ">>
                                  \o prior[turns[k]].content]
            IN  /\ Len(turns) <= 10
                /\ calls[i].prompt =
                      Join(lines, <<"\n">>) \o <<"\n", "User: ">> \o b.query.s

\* a context-mode call on a conversation of more than ten messages, a blank
\* one among the last ten
C18_Witness ==
    \E i \in 1..Len(calls) :
        /\ body[calls[i].req].contextMode
        /\ LET prior == PriorTurns(body[calls[i].req].conversationId)
           IN  /\ Len(prior) > 10
               /\ Cardinality(RecentTurns(prior)) = 10
               /\ \E k \in (Len(prior) - 9)..Len(prior) : Trim(prior[k].content) = <<>>

\* C16: a call of a client ends even when the upstream never answers: the
\* external call gives up at a ceiling of its own.
C16_EveryCallEnds == <>(fetcher.pc = "done")

\* a text holds a complete reasoning block
HasThinkBlock(t) ==
    \E i \in 1..Len(t) : \E j \in (i + 1)..Len(t) : t[i] = "<think>" /\ t[j] = "</think>"

\* C19: no text returned by a hosted client or by the local client holds a
\* complete '<think>...</think>' block.
C19_NoThinkBlockReturned ==
    (fetcher.pc = "done" /\ fetcher.result.ok) => ~HasThinkBlock(fetcher.result.text)

\* a text has a line that holds digits and nothing else
HasDigitLine(t) ==
    \E i \in 1..Len(t) : \E j \in i..Len(t) :
        /\ i = 1 \/ t[i - 1] = "\n"
        /\ j = Len(t) \/ t[j + 1] = "\n"
        /\ \A k \in i..j : t[k] \in Digits

\* C21: a text with a line of digits only, wherever the line stands, the
\* last line without a line break included, is formatted to a text that has
\* no such line.
C21_NoDigitLineLeft ==
    (normal.pc # "raw" /\ HasDigitLine(normal.input)) => ~HasDigitLine(normal.once)

\* a text holds an opening bracket, digits and a closing bracket in a row
HasCitation(t) ==
    \E i \in 1..Len(t) : \E j \in (i + 2)..Len(t) :
        /\ t[i] = "[" /\ t[j] = "]"
        /\ \A k \in (i + 1)..(j - 1) : t[k] \in Digits

\* C22: the formatted text holds no citation marker, not even one that only
\* comes into being when an inner marker is removed.
C22_NoCitationLeft ==
    normal.pc # "raw" => ~HasCitation(normal.once)

\* the request is served, in one of its steps, by a hosted client
UsesHosted(b) ==
    IF b.model = CHAINED
    THEN ChainRoute(b.firstModel) \in HostedClient \/ ChainRoute(b.secondModel) \in HostedClient
    ELSE SingleRoute(b.model) \in HostedClient

ConfigurationError == ErrorResponse(500, "TOGETHER API key not configured")

StructuredMessage(b) ==
    IF b.kind = "object" /\ b.error \in {"string", "objectWithMessage"} THEN b.detail
    ELSE <<>>

\* C24: for a response that is not 2xx the client throws an error whose
\* message is the body's structured error message if it has one, otherwise
\* the raw body if it is not empty (a JSON body without an error field
\* included), otherwise the HTTP status line.
C24_ErrorMessageByPreference ==
    (/\ fetcher.pc = "done"
     /\ fetcher.response # NoAnswer
     /\ ~fetcher.response.ok
     /\ fetcher.fn \in LocalClient \/ fetcher.haveKey) =>
        LET b == fetcher.response.body
            prefix == IF fetcher.fn \in LocalClient THEN <<"Ollama API error: ">>
                      ELSE <<"Together AI API error: ">>
            chosen == IF StructuredMessage(b) # <<>> THEN StructuredMessage(b)
                      ELSE IF errorData(b) # <<>> THEN errorData(b)
                      ELSE StatusLine
        IN  /\ ~fetcher.result.ok
            /\ Embeds(fetcher.result.msg, prefix \o chosen)

\* a 2xx JSON body without the completion the client reads: no choices, no
\* first choice, no message, or a message without content
LacksCompletion(fn, b) ==
    /\ b.kind = "object"
    /\ IF fn \in LocalClient
       THEN b.message = "absent" \/ b.content.kind = "undefined"
       ELSE b.choices # "message" \/ b.content.kind = "undefined"

\* C25: a 2xx response without the completion structure makes the client
\* fail with the 'Unexpected response format' error and with no other error.
C25_UnexpectedResponseFormat ==
    (/\ fetcher.pc = "done"
     /\ fetcher.response.ok
     /\ LacksCompletion(fetcher.fn, fetcher.response.body)
     /\ fetcher.fn \in LocalClient \/ fetcher.haveKey) =>
        /\ ~fetcher.result.ok
        /\ fetcher.result.msg[Len(fetcher.result.msg)] \in
              {"Unexpected response format from Together AI API",
               "Unexpected response format from Ollama API"}

\* C26: closing the browser, failing or not, leaves the outcome of
\* callSciraAPI as the try or catch block made it: the text computed is
\* still returned, the error being thrown is still thrown.
C26_CloseNeverChangesOutcome ==
    [][(scraper.pc = "finally" /\ scraper'.pc = "done") =>
          /\ scraper'.result = scraper.result
          /\ scraper.exit \in {"stable", "timeout"} => scraper'.result.ok
          /\ scraper.exit = "wrapped" => scraper'.result = Thrown(Wrapped(scraper.cause))]_vars

C26_Witness ==
    /\ scraper.pc = "done"
    /\ scraper.closeCalled
    /\ ~scraper.closed
    /\ scraper.exit = "stable"
    /\ scraper.result.ok
    /\ scraper.result.text # <<>>

\* where the store holds the messages a request wrote: conversation, position
WrittenBy(p) ==
    {<<i, j>> \in (1..Len(conversations)) \X (1..(MaxPrior + 3)) :
        j <= Len(conversations[i].messages) /\ conversations[i].messages[j].req = p}

\* C27: when the client of a single-model request, or of either step of a
\* chain, throws, the request ends with status 500 and the store holds of this
\* request its user message and nothing else: no model-authored message, and
\* nothing of the answer of a first step that had succeeded.
C27_FailedCallLeavesOnlyUserMessage ==
    \A p \in Procs :
        ClientFailed(p) =>
            /\ pc[p] = "done"
            /\ resp[p].kind = "error" /\ resp[p].status = 500
            /\ Cardinality(WrittenBy(p)) = 1
            /\ \A w \in WrittenBy(p) :
                  LET m == conversations[w[1]].messages[w[2]]
                  IN  /\ m.isUser
                      /\ m.content = loc[p].query
                      /\ conversations[w[1]].id = loc[p].conv
                      /\ w[2] = Len(conversations[w[1]].messages)

\* a chain whose first step answered and whose second step threw
C27_Witness ==
    \E p \in Procs :
        /\ body[p].model = CHAINED
        /\ Len(CallsOf(p)) = 2
        /\ CallsOf(p)[1].out.ok
        /\ ~CallsOf(p)[2].out.ok
        /\ pc[p] = "done"
        /\ Len(loc[p].messages) = MaxPrior

\* the request has answered 200 with its exchange stored
Answered(p) == pc[p] = "done" /\ resp[p].kind = "chat"

\* C28: once two requests on the same conversation have both been answered,
\* in the conversation's message order the user message of each is directly
\* followed by the model messages of the same request, one per model call.
C28_ExchangesNotInterleaved ==
    (\A p \in Procs : Answered(p)) =>
        \A p \in Procs :
            LET ms == MessagesOf(conversations, loc[p].conv)
                n  == Len(ProducedBy(body[p]))
            IN  \A j \in 1..Len(ms) :
                  (ms[j].req = p /\ ms[j].isUser) =>
                      /\ j + n <= Len(ms)
                      /\ \A d \in 1..n : ms[j + d].req = p /\ ~ms[j + d].isUser

\* the request names a conversation that exists and belongs to another user
NamesForeignConversation(p) ==
    /\ body[p].parses
    /\ body[p].userEmail \in Users
    /\ \E i \in 1..Len(conversations) :
          /\ conversations[i].id = body[p].conversationId
          /\ conversations[i].userId # body[p].userEmail

\* a history fetch: no listing asked for, the query missing or blank
IsHistoryFetch(b) ==
    ~b.listConversations /\ ~TrimThrows(b.query) /\ IsHistoryRequest(b.query)

\* a chat request: no listing asked for, the query a string that is not blank
IsChat(b) ==
    ~b.listConversations /\ b.query.kind = "string" /\ Trim(b.query.s) # <<>>

NotFoundOrNotOwned ==
    ErrorResponse(404, "Conversation not found or does not belong to user")

\* the messages of u2's conversation as every initial store holds them
ForeignMessages == <<Message(<<"s">>, TRUE, DEEPSEEK, 0)>>

\* C29 as stated: a history fetch or a chat request that names a conversation
\* of another user is answered 404, with none of the conversation's messages,
\* and writes no message into it.
C29_ForeignConversationAnswered404 ==
    \A p \in Procs :
        (/\ pc[p] = "done"
         /\ NamesForeignConversation(p)
         /\ IsHistoryFetch(body[p]) \/ IsChat(body[p])) =>
            /\ resp[p] = NotFoundOrNotOwned
            /\ MessagesOf(conversations, body[p].conversationId) = ForeignMessages

\* C29, amended: such a request is answered with an error that carries no
\* message, calls no model client and writes no message into the
\* conversation; the error is the 404 for a history fetch and for a chat
\* request that passes the model and credential checks, which come first.
C29_ForeignConversationNeverReadOrWritten ==
    \A p \in Procs :
        (/\ NamesForeignConversation(p)
         /\ IsHistoryFetch(body[p]) \/ IsChat(body[p])) =>
            /\ MessagesOf(conversations, body[p].conversationId) = ForeignMessages
            /\ CallsOf(p) = <<>>
            /\ pc[p] = "done" =>
                /\ resp[p].kind = "error"
                /\ resp[p].messages = <<>>
                /\ resp[p].status \in {400, 404, 500}
                /\ (\/ IsHistoryFetch(body[p])
                    \/ body[p].model \in AcceptedModels /\ apiKey) =>
                        resp[p] = NotFoundOrNotOwned

C29_Witness ==
    \E p \in Procs :
        /\ pc[p] = "done"
        /\ NamesForeignConversation(p)
        /\ IsChat(body[p])
        /\ body[p].model = CHAINED
        /\ resp[p] = NotFoundOrNotOwned

\* a request of a known user that asks for history: the listing flag set, or
\* the query missing or empty (a blank string counts as empty)
AsksForHistory(b) ==
    /\ b.parses
    /\ b.userEmail \in Users
    /\ \/ b.listConversations
       \/ Falsy(b.query)
       \/ b.query.kind = "string" /\ Trim(b.query.s) = <<>>

\* no message of the store was written by request p
WroteNoMessage(p) ==
    \A i \in 1..Len(conversations) :
        \A j \in 1..Len(conversations[i].messages) :
            conversations[i].messages[j].req # p

\* C30 as stated: a request that asks for history calls no model client and
\* leaves the store as it found it, with no conversation and no message added.
C30_HistoryFetchReadOnly ==
    \A p \in Procs :
        AsksForHistory(body[p]) =>
            /\ CallsOf(p) = <<>>
            /\ conversations \in InitialStores

\* C30, amended: a request that asks for history calls no model client and
\* writes no message; the store stays as found, except that a fetch naming no
\* conversation, by a user who has none, has created one empty conversation,
\* whose id and empty message list are the response.
C30_HistoryFetchWritesNoMessage ==
    \A p \in Procs :
        AsksForHistory(body[p]) =>
            /\ CallsOf(p) = <<>>
            /\ WroteNoMessage(p)
            /\ \/ conversations \in InitialStores
               \/ /\ pc[p] = "done"
                  /\ ~body[p].listConversations
                  /\ ~(Truthy(body[p].conversationId) /\ body[p].conversationId # "new")
                  /\ \E s \in InitialStores :
                        /\ findMostRecent(s, body[p].userEmail) = 0
                        /\ conversations = createConversation(s, body[p].userEmail)
                        /\ resp[p] = HistoryResponse(NextId(s), <<>>)

\* a history fetch that has created the user's first conversation
C30_Witness ==
    \E p \in Procs :
        /\ AsksForHistory(body[p])
        /\ pc[p] = "done"
        /\ resp[p].kind = "history"
        /\ conversations \notin InitialStores

====
